---------------------------- MODULE Spec2Model ----------------------------
(***************************************************************************)
(* GitHubService (src/github_service.py) on top of GitHubClientFactory     *)
(* (src/github_client_factory.py), together with the part of the GitHub    *)
(* server the service talks to: one repository with one branch, its Git    *)
(* object store (blobs, trees, commits) and the branch reference.          *)
(*                                                                         *)
(* Every caller is one thread making one call of a service operation on a  *)
(* shared GitHubService instance.  Each upstream request of an operation   *)
(* is one step, so the calls of different callers interleave between       *)
(* requests; callers that start after another has finished are the         *)
(* sequential uses of the instance.                                        *)
(***************************************************************************)
EXTENDS Integers, Sequences, FiniteSets, TLC

\* Number of calls made on the service instance (one per caller).
NumCallers == 2

Callers == 1..NumCallers

\* File paths and file contents the callers choose their arguments from.
Paths == {"p", "q"}
Contents == {"x", "y"}

\* The longest installation listing and the number of installations the
\* server returns per page.
MaxInstallations == 3
PageSize == 2

\* Organization and account names, as sequences of characters.
Names == {<<"a", "c">>, <<"A", "c">>, <<"A", "C">>, <<"b", "c">>}

\* The two entry points of GitHubClientFactory.
Entries == {"sync", "async"}

\* The longest result sequence the server holds for a list operation.
MaxItems == 3

\* Issue numbers and comment arguments ("none" is comment=None).
IssueNumbers == {1, 2}
Comments == {"none", "done"}

VARIABLES
    client,        \* GitHubService._client: the cached client (NoClient = None)
    factoryCalls,  \* invocations of get_app_authenticated_client_sync so far
    tokens,        \* server: number of installation tokens issued so far
    expired,       \* server: the issued tokens whose lifetime has passed
    head,          \* server: commit the reference heads/{branch} points at
    commits,       \* server: commit objects, by sha (index)
    trees,         \* server: tree objects, by sha (index)
    blobs,         \* server: blob objects (set of shas)
    issues,        \* server: the issues of the repository, by number
    config,        \* AppConfiguration of the client factory
    installations, \* server: the installations of the App, in listing order
    failAt,        \* number of the request of a token resolution that fails
    run,           \* per factory entry point: the state of its invocation
    env,           \* the environment variables of the process
    made,          \* the construction of an AppConfiguration: arguments, outcome
    pc,            \* per caller: position in its call
    op,            \* per caller: the operation it calls
    args,          \* per caller: the arguments of the call
    loc,           \* per caller: the local variables of the call
    ret,           \* per caller: the returned dict (NoResult before return)
    err,           \* per caller: the exception that left the call
    calls          \* per caller: upstream requests issued, in order

service == <<client, factoryCalls>>
server == <<tokens, expired, head, commits, trees, blobs, issues>>
caller == <<pc, op, args, loc, ret, err, calls>>
resolution == <<config, installations, failAt, run, env, made>>
vars == <<client, factoryCalls, tokens, expired, head, commits, trees, blobs,
          issues, pc, op, args, loc, ret, err, calls,
          config, installations, failAt, run, env, made>>

NoClient == 0
NoSha == 0
NoResult == [operation |-> "none"]
NoError == [type |-> "none", cause |-> "none"]
NoEntry == [mode |-> "none", type |-> "none", sha |-> <<>>]
NoArgs == [path |-> "none", content |-> "none"]

Branch == "main"
Message == "msg"

\* A client wraps the installation token it was built with (Auth.Token).
Github(token) == token

\* Content-addressed sha of a blob.
BlobSha(content) == <<"blob", content>>

\* The parameters of a contents request (none sent yet).
NoRequest == [path |-> "none", branch |-> "none", sha |-> <<>>]

NoLocals ==
    [cl |-> NoClient, tmp |-> NoClient, refSha |-> NoSha, baseCommit |-> NoSha,
     baseTree |-> NoSha, blob |-> <<>>, tree |-> NoSha, commit |-> NoSha,
     refEdits |-> 0, stale |-> FALSE, probe |-> "none", fileSha |-> <<>>,
     newCommit |-> NoSha, newFileSha |-> <<>>,
     reqFetch |-> NoRequest, reqWrite |-> NoRequest,
     operation |-> "none", existed |-> "none",
     fetchedAt |-> 0, submittedAt |-> 0, listed |-> <<>>]

-----------------------------------------------------------------------------
(* The server's object store. *)

InitTree == [p \in Paths |->
                IF p = "p" THEN [mode |-> "100644", type |-> "blob", sha |-> BlobSha("a")]
                ELSE NoEntry]

\* Sha of a tree with the given entries: the stored tree with these entries,
\* or the next free sha.
TreeSha(entries) ==
    IF \E i \in 1..Len(trees) : trees[i] = entries
    THEN CHOOSE i \in 1..Len(trees) : trees[i] = entries
    ELSE Len(trees) + 1

StoreTree(entries) ==
    IF TreeSha(entries) <= Len(trees) THEN trees ELSE Append(trees, entries)

\* POST /git/trees with base_tree: the base tree's entries with the given
\* elements laid over them; without a base tree, the elements alone.
OverlayTree(base, path, element) ==
    [p \in Paths |-> IF p = path THEN element
                     ELSE IF base = NoSha THEN NoEntry ELSE trees[base][p]]

RECURSIVE IsAncestorOrEqual(_, _)
\* a is b or is reachable from b through parent links.
IsAncestorOrEqual(a, b) ==
    \/ a = b
    \/ /\ b # NoSha
       /\ \E i \in 1..Len(commits[b].parents) :
             IsAncestorOrEqual(a, commits[b].parents[i])

\* PATCH /git/refs/heads/{branch}: without force the server moves the
\* reference only forward.
RefUpdateAccepted(sha, force) == force \/ IsAncestorOrEqual(head, sha)

\* An upstream request made with this client is authorized.
Authorized(c) == c # NoClient /\ c \in 1..tokens /\ c \notin expired

-----------------------------------------------------------------------------
(* Outcomes of a call. *)

\* Mutation: the exception is caught and dropped; the operation returns.
RaiseSwallowed(w, e) ==
    /\ pc' = [pc EXCEPT ![w] = "done"]
    /\ err' = [err EXCEPT ![w] = e]

Raise(w, e) ==
    /\ pc' = [pc EXCEPT ![w] = "raised"]
    /\ err' = [err EXCEPT ![w] = e]

TransportError == [type |-> "TransportError", cause |-> "transport"]
AuthorizationError == [type |-> "AuthorizationError", cause |-> "expired"]
ResolutionError == [type |-> "ValueError", cause |-> "resolution"]
ReferenceConflictError == [type |-> "GithubException", cause |-> "not fast-forward"]
UnknownObjectException == [type |-> "UnknownObjectException", cause |-> "not found"]
ContentConflict == [type |-> "GithubException", cause |-> "sha mismatch"]
CreateRejected == [type |-> "GithubException", cause |-> "sha not supplied"]

\* raise Exception(f"Failed to update file ...: {str(e)}"): a plain Exception
\* whose message carries the text of the exception it replaces.
FailedToUpdate(e) == [type |-> "Exception", cause |-> e.cause]

\* The ways an upstream request made with client c can fail before it is
\* served: the transport fails, or the client's token has expired.
Failures(c) ==
    {TransportError} \cup (IF c \in expired THEN {AuthorizationError} ELSE {})

\* An upstream request of caller w fails inside a try block whose handler
\* replaces the exception.
UpstreamFailsWrapped(w, endpoint) ==
    /\ calls' = [calls EXCEPT ![w] = Append(@, endpoint)]
    /\ \E e \in Failures(loc[w].cl) : Raise(w, FailedToUpdate(e))

\* An upstream request of caller w fails.
UpstreamFails(w, endpoint) ==
    /\ calls' = [calls EXCEPT ![w] = Append(@, endpoint)]
    /\ \E e \in Failures(loc[w].cl) : Raise(w, e)

\* An upstream request of caller w is served.
Served(w, endpoint) ==
    /\ Authorized(loc[w].cl)
    /\ calls' = [calls EXCEPT ![w] = Append(@, endpoint)]

Goto(w, label) == pc' = [pc EXCEPT ![w] = label]

InFlight(w) == pc[w] \notin {"idle", "done", "raised"}

-----------------------------------------------------------------------------
(* GitHubService._get_client and get_repository. *)

\* Mutation: a client is created on every call.
NeedsClientAlways == TRUE

\* Mutation: a cached client whose token has expired is replaced.
NeedsClientOrExpired == client = NoClient \/ client \in expired

\* if self._client is None
\* Mutation: the instance remembers that it asked the factory, and asks once.
NeedsClientOnce == client = NoClient /\ factoryCalls = 0

NeedsClient == client = NoClient

\* Mutation: the created client is returned without being stored.
CachedAfterCreateLost(new) == client

\* self._client = <the client the factory returned>
CachedAfterCreate(new) == new

\* A caller starts a call of operation o with arguments a.
Start(w, o, a) ==
    /\ pc[w] = "idle"
    /\ op' = [op EXCEPT ![w] = o]
    /\ args' = [args EXCEPT ![w] = a]
    /\ loc' = [loc EXCEPT ![w].stale = client # NoClient /\ client \in expired]
    /\ Goto(w, "getclient")
    /\ UNCHANGED <<service, server, ret, err, calls, resolution>>

get_client_check(w) ==
    /\ pc[w] = "getclient"
    /\ Goto(w, IF NeedsClient THEN "factory" ELSE "retclient")
    /\ UNCHANGED <<service, server, op, args, loc, ret, err, calls, resolution>>

\* GitHubClientFactory.get_app_authenticated_client_sync: one token
\* resolution; it returns a client built on a newly issued token, or raises.
get_app_authenticated_client_sync(w) ==
    /\ pc[w] = "factory"
    /\ factoryCalls' = factoryCalls + 1
    /\ \/ /\ tokens' = tokens + 1
          /\ loc' = [loc EXCEPT ![w].tmp = Github(tokens + 1)]
          /\ Goto(w, "assign")
          /\ UNCHANGED err
       \/ /\ \E e \in {ResolutionError, TransportError} : Raise(w, e)
          /\ UNCHANGED <<tokens, loc>>
    /\ UNCHANGED <<client, expired, head, commits, trees, blobs, op, args, ret, calls, issues, resolution>>

get_client_assign(w) ==
    /\ pc[w] = "assign"
    /\ client' = CachedAfterCreate(loc[w].tmp)
    /\ Goto(w, "retclient")
    /\ UNCHANGED <<factoryCalls, server, op, args, loc, ret, err, calls, resolution>>

\* return self._client
\* The statement after client = self._get_client(): get_repository calls
\* client.get_repo, list_organization_repos client.get_organization,
\* search_issues client.search_issues.
AfterGetClient(o) ==
    CASE o = "list_organization_repos" -> "getorg"
      [] o = "search_issues" -> "list"
      [] o = "get_user_info" -> "getuser"
      [] OTHER -> "getrepo"

get_client_return(w) ==
    /\ pc[w] = "retclient"
    /\ loc' = [loc EXCEPT ![w].cl = client]
    /\ Goto(w, AfterGetClient(op[w]))
    /\ UNCHANGED <<service, server, op, args, ret, err, calls, resolution>>

\* The first step of each operation after get_repository.
Entry(o) ==
    CASE o = "update_file_using_git_api" -> "getref"
      [] o = "update_file_in_branch" -> "getcontents"
      [] o = "create_or_update_file_in_branch" -> "probe"
      [] o = "close_issue" -> "getissue"
      [] o = "get_open_issues" -> "list"
      [] o = "create_issue" -> "createissue"
      [] o = "add_issue_comment" -> "getissue"
      [] o = "get_pull_requests" -> "list"
      [] OTHER -> "return"

\* client.get_repo(f"{owner}/{repo_name}")
get_repo(w) ==
    /\ pc[w] = "getrepo"
    /\ \/ /\ Served(w, "get_repo")
          /\ Goto(w, Entry(op[w]))
          /\ UNCHANGED err
       \/ UpstreamFails(w, "get_repo")
    /\ UNCHANGED <<service, server, op, args, loc, ret, resolution>>

\* get_repository called on its own: it returns the repository.
get_repository_return(w) ==
    /\ pc[w] = "return"
    /\ op[w] = "get_repository"
    /\ ret' = [ret EXCEPT ![w] = [operation |-> "get_repository"]]
    /\ Goto(w, "done")
    /\ UNCHANGED <<service, server, op, args, loc, err, calls, resolution>>

\* The lifetime of an issued token passes.
Expire ==
    /\ \E t \in 1..tokens : t \notin expired /\ expired' = expired \cup {t}
    /\ UNCHANGED <<service, tokens, head, commits, trees, blobs, caller, issues, resolution>>

-----------------------------------------------------------------------------
(* GitHubService.update_file_using_git_api. *)

\* Mutation: the reference is moved with force=True.
RefEditForced == TRUE

\* ref.edit(sha=commit.sha): the force flag is left at the server's default.
RefEditForce == FALSE

\* Mutation: the reference is edited to the base commit's sha.
RefEditShaOfBase(w) == loc[w].baseCommit

\* ref.edit(sha=commit.sha)
RefEditSha(w) == loc[w].commit

\* parents=[base_commit]
CommitParents(w) == <<loc[w].baseCommit>>

\* Mutation: the tree is created without a base tree.
TreeBaseOmitted(w) == NoSha

\* repo.create_git_tree([tree_element], base_commit.tree)
TreeBase(w) == loc[w].baseTree

\* InputGitTreeElement(path=file_path, mode='100644', type='blob', sha=blob.sha)
TreeElement(w) == [mode |-> "100644", type |-> "blob", sha |-> loc[w].blob]

\* Mutation: a rejected ref.edit is retried from the reference lookup.
OnRefRejectedRetry == "getref"

\* A rejected ref.edit raises out of the call: no handler, no loop.
OnRefRejected == "raised"

\* Mutation: the dict reports the base tree's sha as tree_sha.
GitPlumbingResultBaseTree(w) ==
    [operation |-> "update_file_using_git_api",
     commit_sha |-> loc[w].commit,
     commit_message |-> commits[loc[w].commit].message,
     tree_sha |-> loc[w].baseTree,
     blob_sha |-> loc[w].blob,
     branch |-> Branch,
     file_path |-> args[w].path]

\* return {'commit_sha': commit.sha, 'commit_message': commit.message,
\*         'tree_sha': tree.sha, 'blob_sha': blob.sha, 'branch': ..., 'file_path': ...}
GitPlumbingResult(w) ==
    [operation |-> "update_file_using_git_api",
     commit_sha |-> loc[w].commit,
     commit_message |-> commits[loc[w].commit].message,
     tree_sha |-> loc[w].tree,
     blob_sha |-> loc[w].blob,
     branch |-> Branch,
     file_path |-> args[w].path]

\* ref = repo.get_git_ref(f"heads/{branch_name}")
get_git_ref(w) ==
    /\ pc[w] = "getref"
    /\ \/ /\ Served(w, "get_ref")
          /\ loc' = [loc EXCEPT ![w].refSha = head]
          /\ Goto(w, "getcommit")
          /\ UNCHANGED err
       \/ /\ UpstreamFails(w, "get_ref")
          /\ UNCHANGED loc
    /\ UNCHANGED <<service, server, op, args, ret, resolution>>

\* base_commit = repo.get_git_commit(ref.object.sha)
get_git_commit(w) ==
    /\ pc[w] = "getcommit"
    /\ \/ /\ Served(w, "get_commit")
          /\ loc' = [loc EXCEPT ![w].baseCommit = loc[w].refSha,
                                ![w].baseTree = commits[loc[w].refSha].tree]
          /\ Goto(w, "createblob")
          /\ UNCHANGED err
       \/ /\ UpstreamFails(w, "get_commit")
          /\ UNCHANGED loc
    /\ UNCHANGED <<service, server, op, args, ret, resolution>>

\* blob = repo.create_git_blob(file_content, "utf-8")
create_git_blob(w) ==
    /\ pc[w] = "createblob"
    /\ \/ /\ Served(w, "create_blob")
          /\ blobs' = blobs \cup {BlobSha(args[w].content)}
          /\ loc' = [loc EXCEPT ![w].blob = BlobSha(args[w].content)]
          /\ Goto(w, "createtree")
          /\ UNCHANGED err
       \/ /\ UpstreamFails(w, "create_blob")
          /\ UNCHANGED <<blobs, loc>>
    /\ UNCHANGED <<service, tokens, expired, head, commits, trees, op, args, ret, issues, resolution>>

\* tree = repo.create_git_tree([tree_element], base_commit.tree)
create_git_tree(w) ==
    /\ pc[w] = "createtree"
    /\ \/ /\ Served(w, "create_tree")
          /\ LET entries == OverlayTree(TreeBase(w), args[w].path, TreeElement(w))
             IN /\ trees' = StoreTree(entries)
                /\ loc' = [loc EXCEPT ![w].tree = TreeSha(entries)]
          /\ Goto(w, "createcommit")
          /\ UNCHANGED err
       \/ /\ UpstreamFails(w, "create_tree")
          /\ UNCHANGED <<trees, loc>>
    /\ UNCHANGED <<service, tokens, expired, head, commits, blobs, op, args, ret, issues, resolution>>

\* Mutation: the branch is moved to the commit as soon as it is created.
create_git_commit_moving_ref(w) ==
    /\ pc[w] = "createcommit"
    /\ \/ /\ Served(w, "create_commit")
          /\ commits' = Append(commits, [tree |-> loc[w].tree,
                                         parents |-> <<loc[w].baseCommit>>,
                                         message |-> Message])
          /\ loc' = [loc EXCEPT ![w].commit = Len(commits) + 1]
          /\ head' = IF head = loc[w].baseCommit THEN Len(commits) + 1 ELSE head
          /\ Goto(w, "refedit")
          /\ UNCHANGED err
       \/ /\ UpstreamFails(w, "create_commit")
          /\ UNCHANGED <<commits, loc, head>>
    /\ UNCHANGED <<service, tokens, expired, trees, blobs, op, args, ret, issues, resolution>>

\* commit = repo.create_git_commit(message=..., tree=tree, parents=[base_commit])
\* The server stamps a commit with its creation time: every created commit
\* is a new object with a sha of its own.
create_git_commit(w) ==
    /\ pc[w] = "createcommit"
    /\ \/ /\ Served(w, "create_commit")
          /\ commits' = Append(commits, [tree |-> loc[w].tree,
                                         parents |-> CommitParents(w),
                                         message |-> Message])
          /\ loc' = [loc EXCEPT ![w].commit = Len(commits) + 1]
          /\ Goto(w, "refedit")
          /\ UNCHANGED err
       \/ /\ UpstreamFails(w, "create_commit")
          /\ UNCHANGED <<commits, loc>>
    /\ UNCHANGED <<service, tokens, expired, head, trees, blobs, op, args, ret, issues, resolution>>

\* ref.edit(sha=commit.sha)
ref_edit(w) ==
    /\ pc[w] = "refedit"
    /\ loc' = [loc EXCEPT ![w].refEdits = @ + 1]
    /\ \/ /\ Served(w, "update_ref")
          /\ IF RefUpdateAccepted(RefEditSha(w), RefEditForce)
             THEN /\ head' = RefEditSha(w)
                  /\ Goto(w, "return")
                  /\ UNCHANGED err
             ELSE /\ Goto(w, OnRefRejected)
                  /\ err' = [err EXCEPT ![w] = ReferenceConflictError]
                  /\ UNCHANGED head
       \/ /\ UpstreamFails(w, "update_ref")
          /\ UNCHANGED head
    /\ UNCHANGED <<service, tokens, expired, commits, trees, blobs, op, args, ret, issues, resolution>>

update_file_using_git_api_return(w) ==
    /\ pc[w] = "return"
    /\ op[w] = "update_file_using_git_api"
    /\ ret' = [ret EXCEPT ![w] = GitPlumbingResult(w)]
    /\ Goto(w, "done")
    /\ UNCHANGED <<service, server, op, args, loc, err, calls, resolution>>

start_update_file_using_git_api(w) ==
    \E p \in Paths, c \in Contents :
       Start(w, "update_file_using_git_api", [path |-> p, content |-> c])

update_file_using_git_api(w) ==
    \/ get_git_ref(w)
    \/ get_git_commit(w)
    \/ create_git_blob(w)
    \/ create_git_tree(w)
    \/ create_git_commit(w)
    \/ ref_edit(w)
    \/ update_file_using_git_api_return(w)

-----------------------------------------------------------------------------
(* GitHubService.update_file_in_branch. *)

\* The entry of a path in the tree the branch points at.
HeadEntry(path) == trees[commits[head].tree][path]

\* PUT /contents/{path} with sha: the server replaces the file only if the
\* path exists on the branch and its blob still has the given sha.
ContentUpdateAccepted(path, sha) ==
    HeadEntry(path) # NoEntry /\ HeadEntry(path).sha = sha

\* Mutation: the update is submitted with the sha of the new content.
UpdateShaOfNewContent(w) == BlobSha(args[w].content)

\* Mutation: the update carries the hash the file has when it is submitted.
UpdateShaRefetched(w) ==
    IF HeadEntry(args[w].path) = NoEntry THEN loc[w].fileSha
    ELSE HeadEntry(args[w].path).sha

\* sha=file_contents.sha
UpdateSha(w) == loc[w].fileSha

\* Mutation: a missing file does not end the call; the update is submitted.
OnContentsMissingContinue == "updatefile"

\* get_contents raised inside the try block: the handler raises.
OnContentsMissing == "raised"

\* file_contents = repo.get_contents(file_path, ref=branch_name)
get_contents(w) ==
    /\ pc[w] = "getcontents"
    /\ \/ /\ Served(w, "get_contents")
          /\ IF HeadEntry(args[w].path) = NoEntry
             THEN /\ loc' = [loc EXCEPT ![w].probe = "missing",
                                       ![w].reqFetch = [path |-> args[w].path,
                                                        branch |-> Branch, sha |-> <<>>]]
                  /\ Goto(w, OnContentsMissing)
                  /\ err' = [err EXCEPT ![w] = FailedToUpdate(UnknownObjectException)]
             ELSE /\ loc' = [loc EXCEPT ![w].probe = "found",
                                       ![w].fileSha = HeadEntry(args[w].path).sha,
                                       ![w].fetchedAt = Len(commits),
                                       ![w].reqFetch = [path |-> args[w].path,
                                                        branch |-> Branch, sha |-> <<>>]]
                  /\ Goto(w, "updatefile")
                  /\ UNCHANGED err
       \/ /\ UpstreamFailsWrapped(w, "get_contents")
          /\ UNCHANGED loc
    /\ UNCHANGED <<service, server, op, args, ret, resolution>>

\* PUT /contents/{path} accepted: a commit on top of the head whose tree has
\* the new blob at the path; the head moves to it.
ContentWritten(w, path, content) ==
    LET entries == OverlayTree(commits[head].tree, path,
                      [mode |-> "100644", type |-> "blob", sha |-> BlobSha(content)])
    IN /\ blobs' = blobs \cup {BlobSha(content)}
       /\ trees' = StoreTree(entries)
       /\ commits' = Append(commits, [tree |-> TreeSha(entries),
                                      parents |-> <<head>>,
                                      message |-> Message])
       /\ head' = Len(commits) + 1

\* result = repo.update_file(path=..., message=..., content=..., sha=file_contents.sha, branch=...)
update_file(w) ==
    /\ pc[w] = "updatefile"
    /\ LET req == [path |-> args[w].path, branch |-> Branch, sha |-> UpdateSha(w)]
       IN \/ /\ Served(w, "update_file")
             /\ IF ContentUpdateAccepted(req.path, req.sha)
                THEN /\ ContentWritten(w, req.path, args[w].content)
                     /\ loc' = [loc EXCEPT ![w].newCommit = Len(commits) + 1,
                                           ![w].newFileSha = BlobSha(args[w].content),
                                           ![w].submittedAt = Len(commits),
                                           ![w].reqWrite = req]
                     /\ Goto(w, "return")
                     /\ UNCHANGED err
                ELSE /\ Raise(w, FailedToUpdate(ContentConflict))
                     /\ loc' = [loc EXCEPT ![w].reqWrite = req,
                                           ![w].submittedAt = Len(commits)]
                     /\ UNCHANGED <<head, commits, trees, blobs>>
          \/ /\ UpstreamFailsWrapped(w, "update_file")
             /\ loc' = [loc EXCEPT ![w].reqWrite = req]
             /\ UNCHANGED <<head, commits, trees, blobs>>
    /\ UNCHANGED <<service, tokens, expired, op, args, ret, issues, resolution>>

\* return {'commit_sha': result['commit'].sha, 'commit_message': commit_message,
\*         'file_sha': result['content'].sha, 'file_path': ..., 'branch': ...}
update_file_in_branch_return(w) ==
    /\ pc[w] = "return"
    /\ op[w] = "update_file_in_branch"
    /\ ret' = [ret EXCEPT ![w] =
                  [operation |-> "update_file_in_branch",
                   commit_sha |-> loc[w].newCommit,
                   commit_message |-> Message,
                   file_sha |-> loc[w].newFileSha,
                   file_path |-> args[w].path,
                   branch |-> Branch]]
    /\ Goto(w, "done")
    /\ UNCHANGED <<service, server, op, args, loc, err, calls, resolution>>

\* update_file_in_branch is called with a content out of cs.
start_update_file_in_branch_with(w, cs) ==
    \E p \in Paths, c \in cs :
       Start(w, "update_file_in_branch", [path |-> p, content |-> c])

\* The new content may be the content the file already has.
start_update_file_in_branch(w) ==
    start_update_file_in_branch_with(w, Contents \cup {"a"})

update_file_in_branch(w) ==
    \/ get_contents(w)
    \/ update_file(w)
    \/ update_file_in_branch_return(w)

-----------------------------------------------------------------------------
(* GitHubService.create_or_update_file_in_branch. *)

\* PUT /contents/{path} without sha: the server creates the file only if the
\* path does not exist on the branch.
ContentCreateAccepted(path) == HeadEntry(path) = NoEntry

\* Mutation: only a not-found answer of the probe means "does not exist".
ProbeFailureHandledIfNotFound(e) == e = UnknownObjectException

\* except Exception: every exception of the probe is handled.
ProbeFailureHandled(e) == TRUE

\* The probe raised e: file_sha = None, operation = 'created'; an exception
\* the handler does not take leaves the call.
ProbeFailed(w, e, outcome) ==
    IF ProbeFailureHandled(e)
    THEN /\ loc' = [loc EXCEPT ![w].probe = outcome,
                               ![w].operation = "created",
                               ![w].existed =
                                   IF HeadEntry(args[w].path) = NoEntry THEN "no" ELSE "yes",
                               ![w].reqFetch = [path |-> args[w].path,
                                                branch |-> Branch, sha |-> <<>>]]
         /\ Goto(w, "coucreate")
         /\ UNCHANGED err
    ELSE /\ Raise(w, e)
         /\ loc' = [loc EXCEPT ![w].probe = outcome,
                               ![w].existed =
                                   IF HeadEntry(args[w].path) = NoEntry THEN "no" ELSE "yes"]

\* try: file_contents = repo.get_contents(file_path, ref=branch_name) ...
\* except Exception: ...
probe_contents(w) ==
    /\ pc[w] = "probe"
    /\ calls' = [calls EXCEPT ![w] = Append(@, "get_contents")]
    /\ \/ /\ Authorized(loc[w].cl)
          /\ IF HeadEntry(args[w].path) = NoEntry
             THEN ProbeFailed(w, UnknownObjectException, "missing")
             ELSE /\ loc' = [loc EXCEPT ![w].probe = "found",
                                       ![w].fileSha = HeadEntry(args[w].path).sha,
                                       ![w].operation = "updated",
                                       ![w].existed = "yes",
                                       ![w].reqFetch = [path |-> args[w].path,
                                                        branch |-> Branch, sha |-> <<>>]]
                  /\ Goto(w, "couupdate")
                  /\ UNCHANGED err
       \/ \E e \in Failures(loc[w].cl) : ProbeFailed(w, e, "failed")
    /\ UNCHANGED <<service, server, op, args, ret, resolution>>

\* Mutation: a rejected update falls back to creating the file.
cou_update_file_falling_back(w) ==
    /\ pc[w] = "couupdate"
    /\ LET req == [path |-> args[w].path, branch |-> Branch, sha |-> loc[w].fileSha]
       IN \/ /\ Served(w, "update_file")
             /\ IF ContentUpdateAccepted(req.path, req.sha)
                THEN /\ ContentWritten(w, req.path, args[w].content)
                     /\ loc' = [loc EXCEPT ![w].reqWrite = req,
                                           ![w].newCommit = Len(commits) + 1,
                                           ![w].newFileSha = BlobSha(args[w].content)]
                     /\ Goto(w, "return")
                     /\ UNCHANGED err
                ELSE /\ Goto(w, "coucreate")
                     /\ loc' = [loc EXCEPT ![w].reqWrite = req]
                     /\ UNCHANGED <<err, head, commits, trees, blobs>>
          \/ /\ UpstreamFails(w, "update_file")
             /\ loc' = [loc EXCEPT ![w].reqWrite = req]
             /\ UNCHANGED <<head, commits, trees, blobs>>
    /\ UNCHANGED <<service, tokens, expired, op, args, ret, issues, resolution>>

\* if file_sha: result = repo.update_file(..., sha=file_sha, ...)
cou_update_file(w) ==
    /\ pc[w] = "couupdate"
    /\ LET req == [path |-> args[w].path, branch |-> Branch, sha |-> loc[w].fileSha]
       IN \/ /\ Served(w, "update_file")
             /\ IF ContentUpdateAccepted(req.path, req.sha)
                THEN /\ ContentWritten(w, req.path, args[w].content)
                     /\ loc' = [loc EXCEPT ![w].reqWrite = req,
                                           ![w].newCommit = Len(commits) + 1,
                                           ![w].newFileSha = BlobSha(args[w].content)]
                     /\ Goto(w, "return")
                     /\ UNCHANGED err
                ELSE /\ Raise(w, ContentConflict)
                     /\ loc' = [loc EXCEPT ![w].reqWrite = req]
                     /\ UNCHANGED <<head, commits, trees, blobs>>
          \/ /\ UpstreamFails(w, "update_file")
             /\ loc' = [loc EXCEPT ![w].reqWrite = req]
             /\ UNCHANGED <<head, commits, trees, blobs>>
    /\ UNCHANGED <<service, tokens, expired, op, args, ret, issues, resolution>>

\* else: result = repo.create_file(path=..., message=..., content=..., branch=...)
cou_create_file(w) ==
    /\ pc[w] = "coucreate"
    /\ LET req == [path |-> args[w].path, branch |-> Branch, sha |-> <<>>]
       IN \/ /\ Served(w, "create_file")
             /\ IF ContentCreateAccepted(req.path)
                THEN /\ ContentWritten(w, req.path, args[w].content)
                     /\ loc' = [loc EXCEPT ![w].reqWrite = req,
                                           ![w].newCommit = Len(commits) + 1,
                                           ![w].newFileSha = BlobSha(args[w].content)]
                     /\ Goto(w, "return")
                     /\ UNCHANGED err
                ELSE /\ Raise(w, CreateRejected)
                     /\ loc' = [loc EXCEPT ![w].reqWrite = req]
                     /\ UNCHANGED <<head, commits, trees, blobs>>
          \/ /\ UpstreamFails(w, "create_file")
             /\ loc' = [loc EXCEPT ![w].reqWrite = req]
             /\ UNCHANGED <<head, commits, trees, blobs>>
    /\ UNCHANGED <<service, tokens, expired, op, args, ret, issues, resolution>>

\* return {'operation': operation, 'commit_sha': result['commit'].sha, ...}
create_or_update_file_in_branch_return(w) ==
    /\ pc[w] = "return"
    /\ op[w] = "create_or_update_file_in_branch"
    /\ ret' = [ret EXCEPT ![w] =
                  [operation |-> loc[w].operation,
                   commit_sha |-> loc[w].newCommit,
                   commit_message |-> Message,
                   file_sha |-> loc[w].newFileSha,
                   file_path |-> args[w].path,
                   branch |-> Branch]]
    /\ Goto(w, "done")
    /\ UNCHANGED <<service, server, op, args, loc, err, calls, resolution>>

start_create_or_update_file_in_branch(w) ==
    \E p \in Paths, c \in Contents :
       Start(w, "create_or_update_file_in_branch", [path |-> p, content |-> c])

create_or_update_file_in_branch(w) ==
    \/ probe_contents(w)
    \/ cou_update_file(w)
    \/ cou_create_file(w)
    \/ create_or_update_file_in_branch_return(w)

-----------------------------------------------------------------------------
(* GitHubService.close_issue. *)

\* Mutation: the issue is closed without posting the comment first.
AfterGetIssueEdit(w) == "edit"

\* close_issue: if comment: issue.create_comment(comment);
\* add_issue_comment: issue.create_comment(comment)
AfterGetIssue(w) ==
    IF op[w] = "add_issue_comment" THEN "addcomment"
    ELSE IF args[w].comment # "none" THEN "comment" ELSE "edit"

\* issue = repo.get_issue(issue_number)
get_issue(w) ==
    /\ pc[w] = "getissue"
    /\ \/ /\ Served(w, "get_issue")
          /\ Goto(w, AfterGetIssue(w))
          /\ UNCHANGED err
       \/ UpstreamFails(w, "get_issue")
    /\ UNCHANGED <<service, server, op, args, loc, ret, resolution>>

\* Mutation: a comment that cannot be posted is skipped and the issue closed.
create_comment_best_effort(w) ==
    /\ pc[w] = "comment"
    /\ \/ /\ Served(w, "create_comment")
          /\ issues' = [issues EXCEPT ![args[w].issue].comments =
                           Append(@, [text |-> args[w].comment, by |-> w])]
       \/ /\ calls' = [calls EXCEPT ![w] = Append(@, "create_comment")]
          /\ UNCHANGED issues
    /\ Goto(w, "edit")
    /\ UNCHANGED <<service, tokens, expired, head, commits, trees, blobs,
                   op, args, loc, ret, err, resolution>>

\* issue.create_comment(comment)
create_comment(w) ==
    /\ pc[w] = "comment"
    /\ \/ /\ Served(w, "create_comment")
          /\ issues' = [issues EXCEPT ![args[w].issue].comments =
                           Append(@, [text |-> args[w].comment, by |-> w])]
          /\ Goto(w, "edit")
          /\ UNCHANGED err
       \/ /\ UpstreamFails(w, "create_comment")
          /\ UNCHANGED issues
    /\ UNCHANGED <<service, tokens, expired, head, commits, trees, blobs,
                   op, args, loc, ret, resolution>>

\* issue.edit(state='closed')
edit_issue(w) ==
    /\ pc[w] = "edit"
    /\ \/ /\ Served(w, "edit_issue")
          /\ issues' = [issues EXCEPT
                           ![args[w].issue].state = "closed",
                           ![args[w].issue].closedBy =
                               IF issues[args[w].issue].state = "closed" THEN @ ELSE w]
          /\ Goto(w, "return")
          /\ UNCHANGED err
       \/ /\ UpstreamFails(w, "edit_issue")
          /\ UNCHANGED issues
    /\ UNCHANGED <<service, tokens, expired, head, commits, trees, blobs,
                   op, args, loc, ret, resolution>>

\* close_issue returns None.
close_issue_return(w) ==
    /\ pc[w] = "return"
    /\ op[w] = "close_issue"
    /\ ret' = [ret EXCEPT ![w] = [operation |-> "close_issue"]]
    /\ Goto(w, "done")
    /\ UNCHANGED <<service, server, op, args, loc, err, calls, resolution>>

start_close_issue(w) ==
    \E n \in IssueNumbers, c \in Comments :
       Start(w, "close_issue", [issue |-> n, comment |-> c])

close_issue(w) ==
    \/ get_issue(w)
    \/ create_comment(w)
    \/ edit_issue(w)
    \/ close_issue_return(w)

-----------------------------------------------------------------------------
(* GitHubClientFactory: the token resolution, request by request. *)

\* str.lower()
LowerChar(c) == CASE c = "A" -> "a" [] c = "C" -> "c" [] OTHER -> c
Lower(s) == [i \in 1..Len(s) |-> LowerChar(s[i])]

NoToken == <<>>
\* The token the integration endpoint issues for an installation id.
TokenFor(id) == <<"token", id>>

\* _encode_jwt_token(expiration_seconds=600), called at time now: the
\* payload it signs. No method of the factory calls it.
DefaultExpirationSeconds == 600
encode_jwt_token(now, expiration_seconds) ==
    [iat |-> now, exp |-> now + expiration_seconds, iss |-> config.github_app_id]

\* GithubIntegration(integration_id=github_app_id, private_key=...): the
\* library signs the JWT of every App-level request itself, for the app id
\* it was given and with a lifetime of its own; the factory passes none.
JwtLifetimes == {300, 600}
LibraryJwt(lifetime) ==
    [iat |-> 0, exp |-> lifetime, iss |-> config.github_app_id]

NoJwt == [iat |-> 0, exp |-> 0, iss |-> "none"]

NoRun == [pc |-> "idle", page |-> 0, installation |-> 0, token |-> NoToken,
          client |-> NoToken, err |-> NoError, calls |-> <<>>, jwt |-> NoJwt]

\* Mutation: the error names the organization in lower case.
InstallationNotFoundLowered(org) ==
    [type |-> "ValueError", cause |-> "No installation found for organization",
     org |-> Lower(org)]

\* ValueError(f"No installation found for organization: {github_org}")
InstallationNotFound(org) ==
    [type |-> "ValueError", cause |-> "No installation found for organization",
     org |-> org]

\* Mutation: the logins are compared as they are.
MatchesExactly(login, org) == login = org

\* inst.account.login.lower() == self._app_configuration.github_org.lower()
Matches(login, org) == Lower(login) = Lower(org)

\* Mutation: the loop runs on after a match.
BreakOnMatchNever == FALSE

\* installation = inst; break
BreakOnMatch == TRUE

\* Mutation: only the first page of the listing is read.
MorePagesNever(k) == FALSE

\* The paginated list fetches page k+1 when page k was full and more remain.
MorePages(k) == k * PageSize < Len(installations)

\* Mutation: the factory hands out the token another invocation obtained.
CachedTokenOfOther(e) ==
    IF \E o \in Entries \ {e} : run[o].token # NoToken
    THEN run[CHOOSE o \in Entries \ {e} : run[o].token # NoToken].token
    ELSE NoToken

\* The factory holds the configuration only: no token is kept.
CachedToken(e) == NoToken

\* The installations of page k that match the configured organization.
MatchesIn(k) ==
    {i \in ((k - 1) * PageSize + 1)..(k * PageSize) :
        /\ i <= Len(installations)
        /\ Matches(installations[i].login, config.github_org)}

\* The value of `installation` after the loop ran over page k.
Selected(cur, k) ==
    IF MatchesIn(k) = {} THEN cur
    ELSE IF BreakOnMatch
         THEN CHOOSE i \in MatchesIn(k) : \A j \in MatchesIn(k) : i <= j
         ELSE CHOOSE i \in MatchesIn(k) : \A j \in MatchesIn(k) : i >= j

\* The request the invocation is about to send is the one that fails.
RequestFails(e) == Len(run[e].calls) + 1 = failAt

\* get_app_authenticated_client(_sync) is called; the integration client of
\* _get_github_integration is built without a request.
token_start(e) ==
    /\ run[e].pc = "idle"
    /\ \E d \in JwtLifetimes :
          run' = [run EXCEPT ![e] =
                     IF CachedToken(e) # NoToken
                     THEN [@ EXCEPT !.pc = "done", !.token = CachedToken(e),
                                    !.client = Github(CachedToken(e))]
                     ELSE [@ EXCEPT !.pc = "list", !.jwt = LibraryJwt(d)]]
    /\ UNCHANGED <<service, server, caller, config, installations, failAt, env, made>>

\* for inst in installations: one page of get_installations() is fetched and
\* the loop runs over its elements; after the loop, `if not installation`.
list_installations(e) ==
    /\ run[e].pc = "list"
    /\ LET k == run[e].page + 1
           sel == Selected(run[e].installation, k)
           log == Append(run[e].calls, <<"list", k>>)
       IN  run' = [run EXCEPT ![e] =
              IF RequestFails(e)
              THEN [@ EXCEPT !.pc = "raised", !.err = TransportError, !.calls = log]
              ELSE IF (sel = 0 \/ ~BreakOnMatch) /\ MorePages(k)
              THEN [@ EXCEPT !.page = k, !.installation = sel, !.calls = log]
              ELSE IF sel = 0
              THEN [@ EXCEPT !.pc = "raised", !.page = k, !.calls = log,
                             !.err = InstallationNotFound(config.github_org)]
              ELSE [@ EXCEPT !.pc = "exchange", !.page = k, !.installation = sel,
                             !.calls = log]]
    /\ UNCHANGED <<service, server, caller, config, installations, failAt, env, made>>

\* access_token = github_integration.get_access_token(installation.id);
\* return access_token.token; Github(auth=Auth.Token(installation_token))
exchange_token(e) ==
    /\ run[e].pc = "exchange"
    /\ LET id == installations[run[e].installation].id
           log == Append(run[e].calls, <<"token", id>>)
       IN  run' = [run EXCEPT ![e] =
              IF RequestFails(e)
              THEN [@ EXCEPT !.pc = "raised", !.err = TransportError, !.calls = log]
              ELSE [@ EXCEPT !.pc = "done", !.token = TokenFor(id),
                             !.client = Github(TokenFor(id)), !.calls = log]]
    /\ UNCHANGED <<service, server, caller, config, installations, failAt, env, made>>

get_installation_token_sync(e) ==
    \/ list_installations(e)
    \/ exchange_token(e)

\* Mutation: the asynchronous routine exchanges the first installation of the
\* listing without matching it.
get_installation_token_unmatched(e) ==
    \/ /\ run[e].pc = "list"
       /\ Len(installations) > 0
       /\ run' = [run EXCEPT ![e] =
                     [@ EXCEPT !.pc = "exchange", !.page = 1, !.installation = 1,
                               !.calls = Append(@, <<"list", 1>>)]]
       /\ UNCHANGED <<service, server, caller, config, installations, failAt, env, made>>
    \/ exchange_token(e)

\* async _get_installation_token: return self._get_installation_token_sync()
get_installation_token(e) == get_installation_token_sync(e)

\* async get_app_authenticated_client
get_app_authenticated_client(e) ==
    /\ e = "async"
    /\ \/ token_start(e)
       \/ get_installation_token(e)

\* get_app_authenticated_client_sync, request by request
get_app_authenticated_client_sync_steps(e) ==
    /\ e = "sync"
    /\ \/ token_start(e)
       \/ get_installation_token_sync(e)

-----------------------------------------------------------------------------
(* AppConfiguration. *)

\* The four fields, in the order __init__ validates them.
Fields == <<"github_app_id", "github_app_name", "github_app_private_key", "github_org">>
FieldSet == {Fields[i] : i \in 1..Len(Fields)}

\* The environment variable __init__ reads for a field, which is also the
\* name the error message lists.
EnvName(f) ==
    CASE f = "github_app_id" -> "GITHUB_APP_ID"
      [] f = "github_app_name" -> "GITHUB_APP_NAME"
      [] f = "github_app_private_key" -> "GITHUB_APP_PRIVATE_KEY"
      [] f = "github_org" -> "GITHUB_ORG_NAME"

\* None, the empty string, and a value an argument or a variable can carry.
None == "None"
ArgValues == {None, "", "arg"}
EnvValues == {None, "", "env"}

\* Python truthiness of an Optional[str].
Truthy(v) == v # None /\ v # ""

\* Mutation: the environment takes precedence over the argument.
FieldValueEnvFirst(a, v) == IF Truthy(v) THEN v ELSE a

\* argument or os.getenv(NAME)
FieldValue(a, v) == IF Truthy(a) THEN a ELSE v

\* The attributes after the four assignments of __init__.
Assigned(a) == [f \in FieldSet |-> FieldValue(a[f], env[EnvName(f)])]

\* Mutation: validation stops at the first missing field.
MissingFirst(c) ==
    LET all == SelectSeq(Fields, LAMBDA f : ~Truthy(c[f]))
    IN  IF all = <<>> THEN <<>> ELSE <<EnvName(all[1])>>

\* missing = []; if not self.<field>: missing.append(NAME), field by field
Missing(c) ==
    LET all == SelectSeq(Fields, LAMBDA f : ~Truthy(c[f]))
    IN  [i \in 1..Len(all) |-> EnvName(all[i])]

NoConfig == [github_org |-> <<>>]
NotMade == [pc |-> "idle", args |-> <<>>, err |-> NoError]

\* raise ValueError(f"Missing required configuration: {', '.join(missing)}. ...")
MissingConfiguration(names) ==
    [type |-> "ValueError", cause |-> "Missing required configuration",
     missing |-> names]

\* AppConfiguration.__init__(github_app_id, github_app_name,
\*                           github_app_private_key, github_org)
AppConfiguration(a) ==
    /\ made.pc = "idle"
    /\ IF Missing(Assigned(a)) # <<>>
       THEN /\ made' = [pc |-> "raised", args |-> a,
                        err |-> MissingConfiguration(Missing(Assigned(a)))]
            /\ UNCHANGED config
       ELSE /\ made' = [pc |-> "done", args |-> a, err |-> NoError]
            /\ config' = Assigned(a)
    /\ UNCHANGED <<service, server, caller, installations, failAt, run, env>>

\* AppConfiguration.from_env(): return cls()
from_env == AppConfiguration([f \in FieldSet |-> None])

\* AppConfiguration(...) called with any arguments.
construct == \E a \in [FieldSet -> ArgValues] : AppConfiguration(a)

-----------------------------------------------------------------------------
(* The capped list operations: list_organization_repos, get_open_issues,
   get_pull_requests, search_issues. *)

ListOps == {"list_organization_repos", "get_open_issues", "get_pull_requests",
            "search_issues"}

\* The request that yields the paginated list of an operation.
ListEndpoint(o) ==
    CASE o = "list_organization_repos" -> "get_repos"
      [] o = "get_open_issues" -> "get_issues"
      [] o = "get_pull_requests" -> "get_pulls"
      [] o = "search_issues" -> "search_issues"

\* The cap argument: None, or an integer n >= 0.
NoCap == [given |-> FALSE, n |-> 0]
Caps == {NoCap} \cup {[given |-> TRUE, n |-> k] : k \in 0..(MaxItems + 1)}

\* The result sequences of the server: the items, in the server's order.
ResultSeqs == {[i \in 1..k |-> i] : k \in 0..MaxItems}

\* S[:n] of a paginated list.
Slice(S, n) == SubSeq(S, 1, IF n < Len(S) THEN n ELSE Len(S))

\* Mutation: the cap is applied whenever it is not None.
CappedUnlessNone(S, c) == IF c.given THEN Slice(S, c.n) ELSE S

\* if max_results: return list(items[:max_results]); return list(items)
\* (the integer 0 is false, like None)
Capped(S, c) == IF c.given /\ c.n # 0 THEN Slice(S, c.n) ELSE S

\* org = client.get_organization(org_name)
get_organization(w) ==
    /\ pc[w] = "getorg"
    /\ \/ /\ Served(w, "get_organization")
          /\ Goto(w, "list")
          /\ UNCHANGED err
       \/ UpstreamFails(w, "get_organization")
    /\ UNCHANGED <<service, server, op, args, loc, ret, resolution>>

\* items = <paginated list>; return list(items[:cap]) or list(items): the
\* server's sequence S is read and the list built from it.
fetch_list(w) ==
    /\ pc[w] = "list"
    /\ \/ /\ Served(w, ListEndpoint(op[w]))
          /\ \E S \in ResultSeqs :
                /\ loc' = [loc EXCEPT ![w].listed = S]
                /\ ret' = [ret EXCEPT ![w] =
                              [operation |-> op[w], items |-> Capped(S, args[w].cap)]]
          /\ Goto(w, "done")
          /\ UNCHANGED err
       \/ /\ UpstreamFails(w, ListEndpoint(op[w]))
          /\ UNCHANGED <<loc, ret>>
    /\ UNCHANGED <<service, server, op, args, resolution>>

\* One list operation is called with any cap, on an instance no other call
\* is using (the list operations share no state).
start_list(w) ==
    /\ \A v \in Callers \ {w} : pc[v] = "idle"
    /\ \E o \in ListOps, c \in Caps : Start(w, o, [cap |-> c])

list_operation(w) ==
    \/ get_organization(w)
    \/ fetch_list(w)

-----------------------------------------------------------------------------
(* create_issue, add_issue_comment, get_repository_stats, get_user_info. *)

\* return repo.create_issue(title=title, body=body[, labels=labels]): the
\* server numbers the new issue after the existing ones.
create_issue(w) ==
    /\ pc[w] = "createissue"
    /\ \/ /\ Served(w, "create_issue")
          /\ LET n == Cardinality(DOMAIN issues) + 1
             IN /\ issues' = [k \in DOMAIN issues \cup {n} |->
                                 IF k = n
                                 THEN [state |-> "open", comments |-> <<>>, closedBy |-> 0]
                                 ELSE issues[k]]
                /\ ret' = [ret EXCEPT ![w] = [operation |-> "create_issue", number |-> n]]
          /\ Goto(w, "done")
          /\ UNCHANGED err
       \/ /\ UpstreamFails(w, "create_issue")
          /\ UNCHANGED <<issues, ret>>
    /\ UNCHANGED <<service, tokens, expired, head, commits, trees, blobs,
                   op, args, loc, resolution>>

\* add_issue_comment: issue.create_comment(comment); returns None.
add_comment(w) ==
    /\ pc[w] = "addcomment"
    /\ \/ /\ Served(w, "create_comment")
          /\ issues' = [issues EXCEPT ![args[w].issue].comments =
                           Append(@, [text |-> args[w].comment, by |-> w])]
          /\ ret' = [ret EXCEPT ![w] = [operation |-> "add_issue_comment"]]
          /\ Goto(w, "done")
          /\ UNCHANGED err
       \/ /\ UpstreamFails(w, "create_comment")
          /\ UNCHANGED <<issues, ret>>
    /\ UNCHANGED <<service, tokens, expired, head, commits, trees, blobs,
                   op, args, loc, resolution>>

\* get_repository_stats: the dict is built from the attributes of the
\* repository object get_repository returned.
get_repository_stats_return(w) ==
    /\ pc[w] = "return"
    /\ op[w] = "get_repository_stats"
    /\ ret' = [ret EXCEPT ![w] = [operation |-> "get_repository_stats"]]
    /\ Goto(w, "done")
    /\ UNCHANGED <<service, server, op, args, loc, err, calls, resolution>>

\* get_user_info: user = client.get_user(); the dict is built from the
\* attributes of the user, which the library fetches with one request.
get_user(w) ==
    /\ pc[w] = "getuser"
    /\ \/ /\ Served(w, "get_user")
          /\ ret' = [ret EXCEPT ![w] = [operation |-> "get_user_info"]]
          /\ Goto(w, "done")
          /\ UNCHANGED err
       \/ /\ UpstreamFails(w, "get_user")
          /\ UNCHANGED ret
    /\ UNCHANGED <<service, server, op, args, loc, resolution>>

\* Any operation of the service is called, with any arguments, on an
\* instance no other call is using.
start_operation(w) ==
    /\ \A v \in Callers \ {w} : pc[v] = "idle"
    /\ \/ \E o \in {"get_repository", "get_repository_stats", "get_user_info"} :
             Start(w, o, NoArgs)
       \/ \E o \in ListOps, c \in Caps : Start(w, o, [cap |-> c])
       \/ Start(w, "create_issue", NoArgs)
       \/ \E n \in IssueNumbers :
             Start(w, "add_issue_comment", [issue |-> n, comment |-> "done"])
       \/ \E n \in IssueNumbers, c \in Comments :
             Start(w, "close_issue", [issue |-> n, comment |-> c])
       \/ \E o \in {"update_file_in_branch", "create_or_update_file_in_branch",
                    "update_file_using_git_api"}, p \in Paths, c \in Contents :
             Start(w, o, [path |-> p, content |-> c])

-----------------------------------------------------------------------------
(* Specifications. *)

InitServer ==
    /\ expired = {}
    /\ head = 1
    /\ commits = <<[tree |-> 1, parents |-> <<>>, message |-> "init"]>>
    /\ trees = <<InitTree>>
    /\ blobs = {BlobSha("a")}
    /\ issues = [n \in IssueNumbers |->
                    [state |-> "open", comments |-> <<>>, closedBy |-> 0]]

\* No invocation of the client factory is followed step by step.
InitResolution ==
    /\ config = [github_org |-> <<>>]
    /\ installations = <<>>
    /\ failAt = 0
    /\ run = <<>>
    /\ env = <<>>
    /\ made = <<>>

InitCallers ==
    /\ pc = [w \in Callers |-> "idle"]
    /\ op = [w \in Callers |-> "none"]
    /\ args = [w \in Callers |-> NoArgs]
    /\ loc = [w \in Callers |-> NoLocals]
    /\ ret = [w \in Callers |-> NoResult]
    /\ err = [w \in Callers |-> NoError]
    /\ calls = [w \in Callers |-> <<>>]

\* A newly constructed GitHubService: self._client = None.
Init ==
    /\ client = NoClient
    /\ factoryCalls = 0
    /\ tokens = 0
    /\ InitServer
    /\ InitCallers
    /\ InitResolution

\* A GitHubService whose client an earlier call has created and cached.
InitCached ==
    /\ client = Github(1)
    /\ factoryCalls = 1
    /\ tokens = 1
    /\ InitServer
    /\ InitCallers
    /\ InitResolution

\* Concurrent callers of update_file_using_git_api on one branch, on a
\* service whose client is cached.
NextGit ==
    \E w \in Callers :
       \/ start_update_file_using_git_api(w)
       \/ get_client_check(w)
       \/ get_client_return(w)
       \/ get_repo(w)
       \/ update_file_using_git_api(w)

SpecGit == InitCached /\ [][NextGit]_vars

\* Concurrent callers of update_file_in_branch and
\* create_or_update_file_in_branch on one branch, on a service whose client
\* is cached.
NextFile ==
    \E w \in Callers :
       \/ start_update_file_in_branch(w)
       \/ start_create_or_update_file_in_branch(w)
       \/ get_client_check(w)
       \/ get_client_return(w)
       \/ get_repo(w)
       \/ update_file_in_branch(w)
       \/ create_or_update_file_in_branch(w)

SpecFile == InitCached /\ [][NextFile]_vars

\* Concurrent callers of close_issue, on a service whose client is cached.
NextIssue ==
    \E w \in Callers :
       \/ start_close_issue(w)
       \/ get_client_check(w)
       \/ get_client_return(w)
       \/ get_repo(w)
       \/ close_issue(w)

SpecIssue == InitCached /\ [][NextIssue]_vars

\* The listings the server can hold: up to MaxInstallations installations,
\* numbered in listing order.
Listings ==
    UNION {[1..n -> Names] : n \in 0..MaxInstallations}

\* The requests one resolution can send: every page and the exchange.
MaxRequests == (MaxInstallations + PageSize - 1) \div PageSize + 1

\* One invocation of each entry point of a factory, on the same
\* configuration, listing and upstream failure.
InitToken ==
    /\ client = NoClient
    /\ factoryCalls = 0
    /\ tokens = 0
    /\ InitServer
    /\ InitCallers
    /\ \E o \in Names : config = [github_org |-> o, github_app_id |-> "app"]
    /\ \E l \in Listings :
          installations = [i \in 1..Len(l) |-> [id |-> i, login |-> l[i]]]
    /\ failAt \in 0..MaxRequests
    /\ run = [e \in Entries |-> NoRun]
    /\ env = <<>>
    /\ made = <<>>

NextToken ==
    \E e \in Entries :
       \/ get_app_authenticated_client_sync_steps(e)
       \/ get_app_authenticated_client(e)

SpecToken == InitToken /\ [][NextToken]_vars

\* One construction of an AppConfiguration in a process with any
\* environment.
InitConfig ==
    /\ client = NoClient
    /\ factoryCalls = 0
    /\ tokens = 0
    /\ InitServer
    /\ InitCallers
    /\ config = NoConfig
    /\ installations = <<>>
    /\ failAt = 0
    /\ run = <<>>
    /\ env \in [{EnvName(f) : f \in FieldSet} -> EnvValues]
    /\ made = NotMade

NextConfig ==
    \/ construct
    \/ from_env

SpecConfig == InitConfig /\ [][NextConfig]_vars

NextList ==
    \E w \in Callers :
       \/ start_list(w)
       \/ get_client_check(w)
       \/ get_client_return(w)
       \/ get_repo(w)
       \/ list_operation(w)

SpecList == InitCached /\ [][NextList]_vars

\* One call of any operation on a new service instance.
NextService ==
    \E w \in Callers :
       \/ start_operation(w)
       \/ get_client_check(w)
       \/ get_app_authenticated_client_sync(w)
       \/ get_client_assign(w)
       \/ get_client_return(w)
       \/ get_repo(w)
       \/ get_repository_return(w)
       \/ get_repository_stats_return(w)
       \/ get_user(w)
       \/ list_operation(w)
       \/ create_issue(w)
       \/ add_comment(w)
       \/ close_issue(w)
       \/ update_file_in_branch(w)
       \/ create_or_update_file_in_branch(w)
       \/ update_file_using_git_api(w)

SpecService == Init /\ [][NextService]_vars

start_get_repository(w) == Start(w, "get_repository", NoArgs)


\* GitHubService.get_repository: _get_client, then client.get_repo.
get_repository(w) ==
    \/ get_client_check(w)
    \/ get_app_authenticated_client_sync(w)
    \/ get_client_assign(w)
    \/ get_client_return(w)
    \/ get_repo(w)
    \/ get_repository_return(w)

\* Concurrent callers of a new service instance, each acquiring the client.
Next ==
    \E w \in Callers :
       \/ start_get_repository(w)
       \/ get_repository(w)

Spec == Init /\ [][Next]_vars

\* No other call is in progress on the instance.
Sequential(w) == \A v \in Callers \ {w} : ~InFlight(v)

\* Calls made one after the other on a new service instance, while the
\* lifetime of issued tokens passes.
NextSeq ==
    \/ \E w \in Callers :
          \/ Sequential(w) /\ start_get_repository(w)
          \/ Sequential(w) /\ start_update_file_in_branch_with(w, Contents)
          \/ get_repository(w)
          \/ update_file_in_branch(w)
    \/ Expire

SpecSeq == Init /\ [][NextSeq]_vars

-----------------------------------------------------------------------------
(* Properties of update_file_using_git_api (SpecGit). *)

\* Number of requests to an endpoint a caller has issued.
Requests(w, endpoint) ==
    Cardinality({i \in 1..Len(calls[w]) : calls[w][i] = endpoint})

\* The server accepted / rejected the caller's reference update.
RefAccepted(w) == op[w] = "update_file_using_git_api" /\ pc[w] \in {"return", "done"}
RefRejected(w) == pc[w] = "raised" /\ err[w] = ReferenceConflictError

\* The writers that resolved the branch to commit c and whose reference
\* update the server has answered.
AnsweredFrom(c) ==
    {w \in Callers : loc[w].baseCommit = c /\ (RefAccepted(w) \/ RefRejected(w))}

\* C1: among the writers that resolved the branch to the same commit C and
\* whose reference update the server has answered, exactly one update was
\* accepted and every other writer got the reference-conflict error; for two
\* such writers: one succeeds, the other receives the conflict.
C1_OneWinnerPerBase ==
    \A c \in 1..Len(commits) :
       AnsweredFrom(c) # {} =>
          /\ Cardinality({w \in AnsweredFrom(c) : RefAccepted(w)}) = 1
          /\ \A w \in AnsweredFrom(c) : ~RefAccepted(w) => err[w] = ReferenceConflictError

C1_Witness ==
    \E w1, w2 \in Callers :
       /\ w1 # w2
       /\ loc[w1].baseCommit = loc[w2].baseCommit
       /\ loc[w1].baseCommit # NoSha
       /\ pc[w1] = "done"
       /\ RefRejected(w2)

\* C2: the commit of every writer whose call returned successfully is
\* reachable from the branch head through parent links.
C2_NoLostWrite ==
    \A w \in Callers :
       (op[w] = "update_file_using_git_api" /\ pc[w] = "done") =>
          IsAncestorOrEqual(ret[w].commit_sha, head)

C2_Witness ==
    \E w1, w2 \in Callers :
       /\ w1 # w2
       /\ pc[w1] = "done" /\ pc[w2] = "done"
       /\ head = ret[w2].commit_sha
       /\ ret[w1].commit_sha # head
       /\ commits[head].parents = <<ret[w1].commit_sha>>

\* C3: after a successful call that resolved the branch to commit C, the
\* created commit has the created tree as its tree and exactly [C] as its
\* parents, the tree's entry at the written path references the created blob
\* (the blob of the written content), and commit_sha, tree_sha and blob_sha
\* of the result are the shas of these three objects.
C3_ChainIntegrity ==
    \A w \in Callers :
       (op[w] = "update_file_using_git_api" /\ pc[w] = "done") =>
          /\ ret[w].commit_sha = loc[w].commit
          /\ ret[w].tree_sha = loc[w].tree
          /\ ret[w].blob_sha = loc[w].blob
          /\ ret[w].commit_sha \in 1..Len(commits)
          /\ ret[w].tree_sha \in 1..Len(trees)
          /\ ret[w].blob_sha \in blobs
          /\ ret[w].blob_sha = BlobSha(args[w].content)
          /\ commits[ret[w].commit_sha].tree = ret[w].tree_sha
          /\ commits[ret[w].commit_sha].parents = <<loc[w].refSha>>
          /\ trees[ret[w].tree_sha][args[w].path].sha = ret[w].blob_sha
          /\ trees[commits[ret[w].commit_sha].tree][args[w].path].sha
                = BlobSha(args[w].content)

C3_Witness ==
    \E w \in Callers :
       /\ op[w] = "update_file_using_git_api" /\ pc[w] = "done"
       /\ loc[w].refSha # 1
       /\ ret[w].tree_sha # commits[loc[w].refSha].tree

\* A later writer's accepted update: it resolved the branch to w's commit or
\* to a descendant of it.
MovedAfter(w) ==
    \E v \in Callers \ {w} :
       RefAccepted(v) /\ IsAncestorOrEqual(loc[w].commit, loc[v].baseCommit)

\* C4: when a call has returned successfully, the branch reference read
\* after the call, before any later writer has moved it, is exactly the
\* commit_sha the call returned.
C4_RefIsReturnedCommit ==
    \A w \in Callers :
       (op[w] = "update_file_using_git_api" /\ pc[w] = "done" /\ ~MovedAfter(w)) =>
          head = ret[w].commit_sha

C4_Witness ==
    \E w1, w2 \in Callers :
       /\ w1 # w2
       /\ pc[w1] = "done" /\ RefRejected(w2)
       /\ ~MovedAfter(w1)
       /\ head = ret[w1].commit_sha
       /\ head # loc[w1].refSha

\* C5: the tree a writer creates has, at the written path, the entry
\* (mode 100644, type blob, sha of the new blob), and at every other path
\* the same entry as the tree of the commit the branch was resolved to.
C5_SingleEntryOverlay ==
    \A w \in Callers :
       loc[w].tree # NoSha =>
          /\ trees[loc[w].tree][args[w].path] =
                [mode |-> "100644", type |-> "blob", sha |-> loc[w].blob]
          /\ loc[w].blob = BlobSha(args[w].content)
          /\ \A p \in Paths \ {args[w].path} :
                trees[loc[w].tree][p] = trees[commits[loc[w].refSha].tree][p]

C5_Witness ==
    \E w \in Callers :
       /\ loc[w].tree # NoSha
       /\ \E p \in Paths \ {args[w].path} : trees[loc[w].tree][p] # NoEntry
       /\ loc[w].tree # commits[loc[w].refSha].tree

\* C6: within one call the reference update is requested at most once, and
\* a rejected update ends the call with the conflict error raised to the
\* caller.
C6_NoRetry ==
    \A w \in Callers :
       /\ Requests(w, "update_ref") <= 1
       /\ loc[w].refEdits <= 1
       /\ err[w] = ReferenceConflictError =>
             /\ pc[w] = "raised"
             /\ Requests(w, "get_ref") = 1
             /\ calls[w][Len(calls[w])] = "update_ref"

C6_Witness ==
    \E w \in Callers :
       /\ RefRejected(w)
       /\ Requests(w, "update_ref") = 1
       /\ head # loc[w].refSha

-----------------------------------------------------------------------------
(* Properties of the cached client (Spec, SpecSeq). *)

\* The caller has come back from _get_client.
HasClient(w) == pc[w] \in {"getrepo", "return", "done"} \/ Len(calls[w]) > 0

\* C7: in calls made one after the other on one instance, no client exists
\* before the first call that needs one; once a client is cached the factory
\* is not invoked again and the cached client does not change; every call
\* works with the cached client.
C7_CreateOnceThenReuse ==
    /\ []((\A w \in Callers : pc[w] = "idle") =>
             (client = NoClient /\ factoryCalls = 0 /\ tokens = 0))
    /\ [][client # NoClient => (factoryCalls' = factoryCalls /\ client' = client)]_vars
    /\ [](\A w \in Callers : HasClient(w) => (loc[w].cl = client /\ client # NoClient))

C7_Witness ==
    \E w1, w2 \in Callers :
       /\ w1 # w2
       /\ pc[w1] = "done" /\ pc[w2] = "done"
       /\ loc[w1].tmp # NoClient
       /\ loc[w2].tmp = NoClient
       /\ loc[w2].cl = loc[w1].tmp
       /\ factoryCalls = 1

\* C8: callers racing on the first use of one instance each resolve a token
\* of their own; every caller that comes back from _get_client holds a
\* client with a valid token, and the instance then holds one of the created
\* clients as its cached client.
C8_BenignRace ==
    /\ \A w \in Callers :
          HasClient(w) => (loc[w].cl # NoClient /\ Authorized(loc[w].cl))
    /\ \A w, v \in Callers :
          (w # v /\ loc[w].tmp # NoClient) => loc[w].tmp # loc[v].tmp
    /\ (\E w \in Callers : HasClient(w)) =>
          /\ Authorized(client)
          /\ \E v \in Callers : client = loc[v].tmp

C8_Witness ==
    \E w1, w2 \in Callers :
       /\ w1 # w2
       /\ pc[w1] = "done" /\ pc[w2] = "done"
       /\ loc[w1].tmp # NoClient /\ loc[w2].tmp # NoClient
       /\ factoryCalls = 2
       /\ loc[w1].cl = client /\ loc[w2].cl = client

\* C9: once the cached client's token has expired the instance keeps that
\* client and never invokes the factory again; every call started from then
\* on fails, with the authorization error whenever its request reaches the
\* server (a request that is not delivered fails as a transport error).
C9_StaleClientKeepsFailing ==
    /\ [][(client # NoClient /\ client \in expired) =>
             (client' = client /\ factoryCalls' = factoryCalls)]_vars
    /\ [](\A w \in Callers :
             loc[w].stale =>
                /\ pc[w] # "done" /\ pc[w] # "return"
                /\ ret[w] = NoResult
                /\ loc[w].tmp = NoClient
                /\ HasClient(w) => loc[w].cl \in expired
                /\ pc[w] = "raised" =>
                      (err[w] = AuthorizationError \/ err[w].cause = "transport"))

C9_Witness ==
    \E w1, w2 \in Callers :
       /\ w1 # w2
       /\ pc[w1] = "done" /\ loc[w1].tmp # NoClient
       /\ client = loc[w1].tmp /\ client \in expired
       /\ loc[w2].stale /\ loc[w2].cl = client
       /\ pc[w2] = "raised" /\ err[w2] = AuthorizationError
       /\ factoryCalls = 1

-----------------------------------------------------------------------------
(* Properties of update_file_in_branch (SpecFile). *)

\* The call failed inside update_file_in_branch's try block.
FailedInUpdate(w) ==
    op[w] = "update_file_in_branch" /\ pc[w] = "raised" /\ Len(calls[w]) > 1

FirstRequest(w, endpoint) ==
    IF Requests(w, endpoint) = 0 THEN 0
    ELSE CHOOSE i \in 1..Len(calls[w]) :
            /\ calls[w][i] = endpoint
            /\ \A j \in 1..(i - 1) : calls[w][j] # endpoint

\* C11: in every update_file_in_branch call that submits an update, the
\* metadata fetch was made before it, on the same path and branch, and the
\* update carries exactly the sha that fetch returned.
C11_UpdateCarriesFetchedSha ==
    \A w \in Callers :
       (op[w] = "update_file_in_branch" /\ Requests(w, "update_file") > 0) =>
          /\ Requests(w, "get_contents") = 1
          /\ Requests(w, "update_file") = 1
          /\ FirstRequest(w, "get_contents") < FirstRequest(w, "update_file")
          /\ loc[w].probe = "found"
          /\ loc[w].reqWrite.sha = loc[w].fileSha
          /\ loc[w].reqWrite.path = args[w].path
          /\ loc[w].reqWrite.path = loc[w].reqFetch.path
          /\ loc[w].reqWrite.branch = loc[w].reqFetch.branch

C11_Witness ==
    \E w \in Callers :
       /\ op[w] = "update_file_in_branch"
       /\ pc[w] = "done"
       /\ loc[w].reqWrite.sha = BlobSha("a")
       /\ head = ret[w].commit_sha
       /\ HeadEntry(args[w].path).sha = BlobSha(args[w].content)

-----------------------------------------------------------------------------
(* Properties of create_or_update_file_in_branch (SpecFile). *)

\* C12 as stated: a call on a path that exists on the branch when it is
\* probed goes on to the update, carrying the file's sha, never to a create,
\* and reports "updated"; a call on a path that does not exist goes on to
\* the create, never to an update, and reports "created".
C12_RoutesByExistence ==
    \A w \in Callers :
       (op[w] = "create_or_update_file_in_branch" /\ loc[w].existed # "none") =>
          /\ loc[w].existed = "yes" =>
                /\ pc[w] # "coucreate"
                /\ Requests(w, "create_file") = 0
                /\ Requests(w, "update_file") > 0 => loc[w].reqWrite.sha = loc[w].fileSha
                /\ pc[w] = "done" => ret[w].operation = "updated"
          /\ loc[w].existed = "no" =>
                /\ pc[w] # "couupdate"
                /\ Requests(w, "update_file") = 0
                /\ pc[w] = "done" => ret[w].operation = "created"

\* C13: after any failure of the probe (not found, or a failed request) the
\* call goes on to the create with no error raised, never issues an update,
\* and an error it ends with is that of the create request.
C13_AnyProbeFailureMeansCreate ==
    \A w \in Callers :
       (op[w] = "create_or_update_file_in_branch"
           /\ loc[w].probe \in {"missing", "failed"}) =>
          /\ Requests(w, "update_file") = 0
          /\ Requests(w, "get_contents") = 1
          /\ calls[w][Len(calls[w])] = "get_contents" =>
                (pc[w] = "coucreate" /\ err[w] = NoError)
          /\ calls[w][Len(calls[w])] # "get_contents" =>
                (/\ calls[w][Len(calls[w])] = "create_file"
                 /\ Requests(w, "create_file") = 1
                 /\ pc[w] \in {"return", "done", "raised"})
          /\ pc[w] = "done" => ret[w].operation = "created"

C13_Witness ==
    \E w1, w2 \in Callers :
       /\ op[w1] = "create_or_update_file_in_branch"
       /\ loc[w1].probe = "failed"
       /\ pc[w1] = "done" /\ ret[w1].operation = "created"
       /\ op[w2] = "create_or_update_file_in_branch"
       /\ loc[w2].probe = "failed" /\ loc[w2].existed = "yes"
       /\ pc[w2] = "raised" /\ err[w2] = CreateRejected

-----------------------------------------------------------------------------
(* Properties of close_issue (SpecIssue). *)

\* The comment of caller w is in the comment list of its issue.
CommentPosted(w) ==
    \E i \in 1..Len(issues[args[w].issue].comments) :
       issues[args[w].issue].comments[i] = [text |-> args[w].comment, by |-> w]

\* C14: an issue is never in state closed, closed by a close_issue call that
\* was given a comment, while that comment is absent from the issue's
\* comment list; a call given a comment requests the state change only
\* after its comment is in the list.
C14_CommentBeforeClose ==
    /\ \A n \in IssueNumbers :
          (issues[n].state = "closed" /\ args[issues[n].closedBy].comment # "none") =>
             /\ args[issues[n].closedBy].issue = n
             /\ CommentPosted(issues[n].closedBy)
    /\ \A w \in Callers :
          (op[w] = "close_issue" /\ args[w].comment # "none"
              /\ (pc[w] = "edit" \/ Requests(w, "edit_issue") > 0)) =>
             /\ CommentPosted(w)
             /\ FirstRequest(w, "create_comment") > 0
             /\ Requests(w, "edit_issue") > 0 =>
                   FirstRequest(w, "create_comment") < FirstRequest(w, "edit_issue")

C14_Witness ==
    \E w \in Callers, n \in IssueNumbers :
       /\ op[w] = "close_issue" /\ pc[w] = "done"
       /\ args[w].comment = "done" /\ args[w].issue = n
       /\ issues[n].state = "closed" /\ issues[n].closedBy = w
       /\ CommentPosted(w)

-----------------------------------------------------------------------------
(* Properties of the token resolution (SpecToken). *)

\* The installations whose login equals the configured organization when
\* upper and lower case are not told apart.
SameIgnoringCase(a, b) ==
    /\ Len(a) = Len(b)
    /\ \A i \in 1..Len(a) : LowerChar(a[i]) = LowerChar(b[i])

MatchingInstallations ==
    {i \in 1..Len(installations) :
        SameIgnoringCase(installations[i].login, config.github_org)}

FirstMatching ==
    CHOOSE i \in MatchingInstallations : \A j \in MatchingInstallations : i <= j

\* The pages of the listing (an empty listing is one empty page).
NumPages ==
    IF Len(installations) = 0 THEN 1
    ELSE (Len(installations) + PageSize - 1) \div PageSize

\* The requests of invocation e to an endpoint, in order.
CallsTo(e, endpoint) ==
    SelectSeq(run[e].calls, LAMBDA c : c[1] = endpoint)

Finished(e) == run[e].pc \in {"done", "raised"}

\* C15: when no installation's login matches the configured organization,
\* the resolution never yields a token and never calls the token exchange,
\* and once the listing was served it has failed with the not-found error
\* that names the organization as configured.
C15_NoMatchRaisesNotFound ==
    \A e \in Entries :
       MatchingInstallations = {} =>
          /\ run[e].pc # "done"
          /\ run[e].token = NoToken
          /\ CallsTo(e, "token") = <<>>
          /\ run[e].pc = "raised" =>
                \/ run[e].err = [type |-> "ValueError",
                                 cause |-> "No installation found for organization",
                                 org |-> config.github_org]
                \/ /\ run[e].err = TransportError
                   /\ failAt = Len(run[e].calls)
          /\ (Finished(e) /\ (failAt = 0 \/ failAt > NumPages)) =>
                /\ run[e].err.type = "ValueError"
                /\ run[e].err.org = config.github_org

C15_Witness ==
    \E e \in Entries :
       /\ run[e].pc = "raised"
       /\ run[e].err.type = "ValueError"
       /\ Len(installations) >= 2
       /\ MatchingInstallations = {}
       /\ Lower(config.github_org) # config.github_org

\* The installations the loop of invocation e has examined so far.
Examined(e) ==
    {i \in 1..Len(installations) :
        /\ i <= run[e].page * PageSize
        /\ run[e].installation # 0 => i <= run[e].installation}

\* C16: an installation is selected exactly when its login equals the
\* configured organization after both are lower-cased: the selected one
\* matches ignoring case, and none is selected only while no examined
\* installation matches ignoring case.
C16_CaseInsensitiveMatch ==
    \A e \in Entries :
       /\ run[e].installation # 0 =>
             run[e].installation \in MatchingInstallations
       /\ run[e].installation = 0 =>
             Examined(e) \cap MatchingInstallations = {}
       /\ run[e].err.type = "ValueError" => MatchingInstallations = {}

C16_Witness ==
    \E e \in Entries :
       /\ run[e].pc = "done"
       /\ installations[run[e].installation].login # config.github_org
       /\ \A i \in 1..Len(installations) : installations[i].login # config.github_org

\* C17: the token is exchanged for the id of the first installation, in
\* listing order, that matches the configured organization, and the token
\* returned is the one that exchange produced.
C17_FirstMatchExchanged ==
    \A e \in Entries :
       /\ run[e].pc \in {"exchange", "done"} =>
             /\ MatchingInstallations # {}
             /\ run[e].installation = FirstMatching
       /\ CallsTo(e, "token") # <<>> =>
             CallsTo(e, "token") = <<(<<"token", installations[FirstMatching].id>>)>>
       /\ run[e].pc = "done" =>
             /\ run[e].token = <<"token", installations[FirstMatching].id>>
             /\ run[e].client = run[e].token
             /\ run[e].calls[Len(run[e].calls)] =
                   <<"token", installations[FirstMatching].id>>

C17_Witness ==
    \E e \in Entries :
       /\ run[e].pc = "done"
       /\ Cardinality(MatchingInstallations) >= 2
       /\ FirstMatching > 1
       /\ run[e].token = <<"token", FirstMatching>>

\* C18: the listing is examined across all of its pages: the not-found
\* error is raised only after every page was fetched, a match on any page
\* is found when the upstream serves the requests, and the pages are
\* fetched in order, each once.
C18_AllPagesExamined ==
    \A e \in Entries :
       /\ run[e].err.type = "ValueError" =>
             /\ run[e].page = NumPages
             /\ CallsTo(e, "list") = [k \in 1..NumPages |-> <<"list", k>>]
       /\ (MatchingInstallations # {} /\ Finished(e) /\ failAt = 0) =>
             run[e].pc = "done"
       /\ \A k \in 1..Len(CallsTo(e, "list")) : CallsTo(e, "list")[k] = <<"list", k>>

C18_Witness ==
    \E e \in Entries :
       /\ run[e].pc = "done"
       /\ run[e].installation > PageSize
       /\ run[e].page = 2

\* One sequence is a prefix of the other.
PrefixOrEqual(a, b) ==
    /\ Len(a) <= Len(b)
    /\ \A i \in 1..Len(a) : a[i] = b[i]

\* C19: on the same configuration and the same upstream responses the two
\* entry points send the same requests in the same order, select the same
\* installation and end with the same token or the same error.
C19_EntryPointsAgree ==
    /\ \/ PrefixOrEqual(run["sync"].calls, run["async"].calls)
       \/ PrefixOrEqual(run["async"].calls, run["sync"].calls)
    /\ (Finished("sync") /\ Finished("async")) =>
          /\ run["sync"].calls = run["async"].calls
          /\ run["sync"].installation = run["async"].installation
          /\ run["sync"].pc = run["async"].pc
          /\ run["sync"].token = run["async"].token
          /\ run["sync"].client = run["async"].client
          /\ run["sync"].err = run["async"].err

C19_Witness ==
    /\ run["sync"].pc = "done"
    /\ run["async"].pc = "done"
    /\ run["async"].token # NoToken
    /\ Len(run["async"].calls) >= 3

\* C20: every invocation resolves the token itself, once: a returned token
\* was preceded by the invocation's own listing requests and its own single
\* exchange, no request is sent twice, and a failed request ends the
\* invocation with that failure and nothing sent after it.
C20_OneResolutionPerInvocation ==
    \A e \in Entries :
       /\ run[e].pc = "done" =>
             /\ run[e].page >= 1
             /\ run[e].calls =
                   [k \in 1..(run[e].page + 1) |->
                       IF k <= run[e].page THEN <<"list", k>>
                       ELSE <<"token", installations[run[e].installation].id>>]
       /\ \A i, j \in 1..Len(run[e].calls) :
             run[e].calls[i] = run[e].calls[j] => i = j
       /\ (failAt # 0 /\ Len(run[e].calls) >= failAt) =>
             /\ run[e].pc = "raised"
             /\ run[e].err = TransportError
             /\ Len(run[e].calls) = failAt
             /\ run[e].token = NoToken
       /\ run[e].pc = "raised" =>
             \/ run[e].err = TransportError /\ Len(run[e].calls) = failAt
             \/ run[e].err.type = "ValueError" /\ CallsTo(e, "token") = <<>>

C20_Witness ==
    \E e, o \in Entries :
       /\ e # o
       /\ run[e].pc = "done"
       /\ run[e].token # NoToken
       /\ run[o].pc = "exchange"
       /\ Len(run[o].calls) >= 1
       /\ run[o].token = NoToken

-----------------------------------------------------------------------------
(* Further properties of update_file_using_git_api (SpecGit). *)

\* The requests of update_file_using_git_api, in the order of the code.
GitCallOrder ==
    <<"get_repo", "get_ref", "get_commit", "create_blob", "create_tree",
      "create_commit", "update_ref">>

\* C26: the requests of update_file_using_git_api are sent in the order
\* get-ref, get-commit, create-blob, create-tree, create-commit, update-ref;
\* the reference update is requested only when blob, tree and commit exist,
\* and a call that has not requested it has not moved the branch.
C26_RefUpdateLast ==
    /\ \A w \in Callers :
          op[w] = "update_file_using_git_api" =>
             /\ PrefixOrEqual(calls[w], GitCallOrder)
             /\ Requests(w, "update_ref") > 0 =>
                   /\ loc[w].blob \in blobs
                   /\ loc[w].tree \in 1..Len(trees)
                   /\ loc[w].commit \in 1..Len(commits)
                   /\ commits[loc[w].commit].tree = loc[w].tree
             /\ (Requests(w, "update_ref") = 0 /\ loc[w].commit # NoSha) =>
                   head # loc[w].commit
             /\ (pc[w] = "raised" /\ Requests(w, "update_ref") = 0) =>
                   ~IsAncestorOrEqual(loc[w].commit, head) \/ loc[w].commit = NoSha
    /\ head # 1 =>
          \E w \in Callers :
             /\ loc[w].commit = head
             /\ Requests(w, "update_ref") = 1

C26_Witness ==
    \E w \in Callers :
       /\ op[w] = "update_file_using_git_api"
       /\ pc[w] = "raised"
       /\ calls[w] = SubSeq(GitCallOrder, 1, 6)
       /\ loc[w].tree # NoSha
       /\ loc[w].commit = NoSha
       /\ head = loc[w].refSha

-----------------------------------------------------------------------------
(* Concurrent update_file_in_branch calls (SpecFile). *)

\* The update of caller w was accepted by the server.
UpdateAccepted(w) ==
    op[w] = "update_file_in_branch" /\ loc[w].newCommit # NoSha

\* The update of caller w was served (accepted or rejected).
UpdateSubmitted(w) ==
    /\ op[w] = "update_file_in_branch"
    /\ Requests(w, "update_file") = 1
    /\ loc[w].submittedAt # 0

\* Callers w and v update the same path, fetched the same hash, and each
\* fetched before the other submitted.
FetchedSameBeforeSubmit(w, v) ==
    /\ w # v
    /\ UpdateSubmitted(w) /\ UpdateSubmitted(v)
    /\ args[w].path = args[v].path
    /\ loc[w].fileSha = loc[v].fileSha
    /\ loc[w].fetchedAt <= loc[v].submittedAt
    /\ loc[v].fetchedAt <= loc[w].submittedAt

\* C27 as stated: of two update_file_in_branch calls on the same path that
\* fetched the same hash before either submitted, at most one succeeds.
C27_AtMostOneSucceeds ==
    \A w, v \in Callers :
       FetchedSameBeforeSubmit(w, v) => ~(UpdateAccepted(w) /\ UpdateAccepted(v))

\* The hash the path had in the commit that caller w's update replaced.
ReplacedSha(w) ==
    trees[commits[commits[loc[w].newCommit].parents[1]].tree][args[w].path].sha

\* C27 (amended): an accepted update replaced content with the hash the
\* call had fetched; of two calls that fetched the same hash before either
\* submitted, the one submitting right after the other's accepted update
\* fails, with the failed-update exception, whenever that update changed the
\* file's hash.
C27_StaleHashRejected ==
    /\ \A w \in Callers :
          /\ UpdateAccepted(w) => ReplacedSha(w) = loc[w].fileSha
          /\ (op[w] = "update_file_in_branch" /\ err[w].cause = "sha mismatch") =>
                /\ pc[w] = "raised"
                /\ err[w].type = "Exception"
                /\ loc[w].newCommit = NoSha
    /\ \A w, v \in Callers :
          (/\ FetchedSameBeforeSubmit(w, v)
           /\ UpdateAccepted(v)
           /\ loc[w].submittedAt = loc[v].submittedAt + 1
           /\ BlobSha(args[v].content) # loc[v].fileSha) =>
             /\ ~UpdateAccepted(w)
             /\ err[w] = [type |-> "Exception", cause |-> "sha mismatch"]

C27_Witness ==
    \E w, v \in Callers :
       /\ FetchedSameBeforeSubmit(w, v)
       /\ pc[v] = "done"
       /\ pc[w] = "raised"
       /\ err[w] = [type |-> "Exception", cause |-> "sha mismatch"]
       /\ HeadEntry(args[v].path).sha = BlobSha(args[v].content)

-----------------------------------------------------------------------------
(* Failed token resolution in _get_client (SpecSeq). *)

\* The call of w ended in the factory: before any upstream request of the
\* operation itself.
FactoryFailed(w) ==
    /\ pc[w] = "raised"
    /\ calls[w] = <<>>
    /\ loc[w].cl = NoClient

\* The factory returned a client to w.
FactoryServed(w) == loc[w].tmp # NoClient

\* C28: a token resolution that fails inside an operation caches nothing:
\* the operation ends with the factory's error, the cached client is empty
\* unless a resolution succeeded, and every later call that finds it empty
\* asks the factory again.
C28_FailedResolutionNotCached ==
    /\ \A w \in Callers :
          /\ FactoryFailed(w) =>
                /\ err[w] \in {ResolutionError, TransportError}
                /\ loc[w].tmp = NoClient
                /\ ret[w] = NoResult
          /\ pc[w] \in {"retclient", "getrepo"} => client # NoClient
    /\ client # NoClient => \E w \in Callers : FactoryServed(w) /\ loc[w].tmp = client
    /\ (\A w \in Callers : ~FactoryServed(w)) => client = NoClient
    /\ factoryCalls = Cardinality({w \in Callers : FactoryFailed(w)})
                    + Cardinality({w \in Callers : FactoryServed(w)})

C28_Witness ==
    \E w1, w2 \in Callers :
       /\ FactoryFailed(w1)
       /\ err[w1] = ResolutionError
       /\ pc[w2] = "done"
       /\ FactoryServed(w2)
       /\ client = loc[w2].tmp
       /\ factoryCalls = 2

-----------------------------------------------------------------------------
(* Failure of the comment in close_issue (SpecIssue). *)

\* The call of w failed at issue.create_comment.
CommentFailed(w) ==
    /\ op[w] = "close_issue"
    /\ Len(calls[w]) > 0
    /\ calls[w][Len(calls[w])] = "create_comment"
    /\ ~CommentPosted(w)
    /\ pc[w] # "comment"

\* C29: when posting the comment fails, close_issue never requests the
\* state change: the call ends with that failure, it has not closed the
\* issue, and an issue no other call closed is still open.
C29_NoCloseAfterFailedComment ==
    \A w \in Callers :
       CommentFailed(w) =>
          /\ pc[w] = "raised"
          /\ err[w] = TransportError
          /\ Requests(w, "edit_issue") = 0
          /\ issues[args[w].issue].closedBy # w
          /\ (\A v \in Callers \ {w} :
                 ~(op[v] = "close_issue" /\ args[v].issue = args[w].issue)) =>
                issues[args[w].issue].state = "open"

C29_Witness ==
    \E w \in Callers :
       /\ CommentFailed(w)
       /\ pc[w] = "raised"
       /\ args[w].comment = "done"
       /\ issues[args[w].issue].state = "open"
       /\ issues[args[w].issue].comments = <<>>

-----------------------------------------------------------------------------
(* The update branch of create_or_update_file_in_branch (SpecFile). *)

\* The probe of caller w found the file.
ProbeFound(w) ==
    op[w] = "create_or_update_file_in_branch" /\ loc[w].probe = "found"

\* C30: after a probe that found the file, create_or_update_file_in_branch
\* requests one update with the probed hash and never a create; a rejected
\* or failed update ends the call with that error, with nothing written and
\* no further request.
C30_UpdateOnceNoFallback ==
    \A w \in Callers :
       ProbeFound(w) =>
          /\ Requests(w, "create_file") = 0
          /\ Requests(w, "update_file") <= 1
          /\ Requests(w, "get_contents") = 1
          /\ pc[w] # "coucreate"
          /\ pc[w] \in {"return", "done", "raised"} =>
                /\ Requests(w, "update_file") = 1
                /\ calls[w][Len(calls[w])] = "update_file"
                /\ loc[w].reqWrite.sha = loc[w].fileSha
          /\ pc[w] = "raised" =>
                /\ err[w] \in {ContentConflict, TransportError}
                /\ loc[w].newCommit = NoSha
                /\ ret[w] = NoResult
          /\ pc[w] = "done" => ret[w].operation = "updated"

C30_Witness ==
    \E w \in Callers :
       /\ ProbeFound(w)
       /\ pc[w] = "raised"
       /\ err[w] = ContentConflict
       /\ HeadEntry(args[w].path).sha # loc[w].fileSha
       /\ Requests(w, "update_file") = 1

-----------------------------------------------------------------------------
(* Properties of AppConfiguration (SpecConfig). *)

\* A field is given by the argument, or else by the environment.
Given(f) == made.args[f] \notin {None, ""}
InEnvironment(f) == env[EnvName(f)] \notin {None, ""}
Available(f) == Given(f) \/ InEnvironment(f)

\* C21: when every field is available from its argument or else from its
\* environment variable, construction succeeds and every field of the
\* object is the argument when given and the environment value otherwise.
C21_ValidConfigurationExposed ==
    (made.pc # "idle" /\ \A f \in FieldSet : Available(f)) =>
       /\ made.pc = "done"
       /\ made.err = NoError
       /\ DOMAIN config = FieldSet
       /\ \A f \in FieldSet :
             config[f] = IF Given(f) THEN made.args[f] ELSE env[EnvName(f)]

C21_Witness ==
    /\ made.pc = "done"
    /\ Given("github_app_id") /\ InEnvironment("github_app_id")
    /\ ~Given("github_org") /\ made.args["github_org"] = ""
    /\ config["github_app_id"] = "arg"
    /\ config["github_org"] = "env"

\* C22: when a field is available neither from its argument nor from the
\* environment, construction fails with a ValueError, no object is made,
\* and the error lists exactly the missing fields.
C22_EveryMissingFieldNamed ==
    (made.pc # "idle" /\ \E f \in FieldSet : ~Available(f)) =>
       /\ made.pc = "raised"
       /\ config = NoConfig
       /\ made.err.type = "ValueError"
       /\ {made.err.missing[i] : i \in 1..Len(made.err.missing)} =
             {EnvName(f) : f \in {g \in FieldSet : ~Available(g)}}
       /\ Len(made.err.missing) = Cardinality({g \in FieldSet : ~Available(g)})

C22_Witness ==
    /\ made.pc = "raised"
    /\ made.err.missing = <<"GITHUB_APP_NAME", "GITHUB_ORG_NAME">>
    /\ Given("github_app_id")
    /\ InEnvironment("github_app_private_key")

-----------------------------------------------------------------------------
(* Properties of the capped list operations (SpecList). *)

\* C23: for every cap n >= 0 and every server sequence S a capped list
\* operation returns the prefix of S of length min(n, |S|), so at most n
\* items; without a cap it returns S.
C23_CapIsPrefix ==
    \A w \in Callers :
       (op[w] \in ListOps /\ pc[w] = "done") =>
          IF ~args[w].cap.given
          THEN ret[w].items = loc[w].listed
          ELSE /\ Len(ret[w].items) <= args[w].cap.n
               /\ Len(ret[w].items) <= Len(loc[w].listed)
               /\ Len(ret[w].items) = args[w].cap.n \/ Len(ret[w].items) = Len(loc[w].listed)
               /\ \A i \in 1..Len(ret[w].items) : ret[w].items[i] = loc[w].listed[i]

-----------------------------------------------------------------------------
(* How the operations of the service end (SpecService). *)

\* The exceptions the library and the factory raise.
LibraryErrors ==
    {TransportError, AuthorizationError, ResolutionError, UnknownObjectException,
     ContentConflict, CreateRejected, ReferenceConflictError}

\* C24 as stated: every operation ends by returning a value; no failure of
\* an upstream call leaves the operation as an exception.
C24_NoFailureEscapes ==
    \A w \in Callers : pc[w] # "raised"

\* C24 (amended): an operation ends by returning its result or by raising:
\* a call that returned carries a result and no error, and a failed upstream
\* call ends the operation with the library's exception (replaced by a
\* plain Exception with its text inside the try block of
\* update_file_in_branch), with no result and no request after it.
C24_ReturnsOrRaises ==
    \A w \in Callers :
       /\ pc[w] = "done" => (ret[w] # NoResult /\ err[w] = NoError)
       /\ pc[w] = "raised" =>
             /\ ret[w] = NoResult
             /\ IF op[w] = "update_file_in_branch" /\ Len(calls[w]) > 1
                THEN err[w] \in {FailedToUpdate(e) : e \in LibraryErrors}
                ELSE err[w] \in LibraryErrors
       /\ err[w] # NoError => pc[w] = "raised"
       /\ ret[w] # NoResult => pc[w] = "done"

C24_Witness ==
    \E w \in Callers :
       /\ op[w] = "get_user_info"
       /\ pc[w] = "raised"
       /\ err[w] = TransportError
       /\ calls[w] = <<"get_user">>

-----------------------------------------------------------------------------
(* The JWT of a token resolution (SpecToken). *)

\* C25: every token resolution signs a JWT whose issuer is the configured
\* app id and whose expiry is 600 seconds after its issued-at time, and
\* this JWT authenticates the installation listing and the token exchange.
C25_SignsTenMinuteJwt ==
    \A e \in Entries :
       run[e].calls # <<>> =>
          /\ run[e].jwt.iss = config.github_app_id
          /\ run[e].jwt.exp - run[e].jwt.iat = 600
          /\ run[e].jwt = encode_jwt_token(run[e].jwt.iat, DefaultExpirationSeconds)

=============================================================================
